---- MODULE Spec2Model ----
(***************************************************************************)
(* Lead ingestion, deduplication and notification pipeline of carfinderai. *)
(*                                                                         *)
(* The module models                                                       *)
(*   - managers/data_manager.py  (DataManager: the Google-Sheet ledger,    *)
(*     its local JSON mirror, normalisation and duplicate filtering),      *)
(*   - main_agent.py             (main: the orchestrator of one run),      *)
(*   - utils/ui_config_manager.py (the CRM toggle kept in ui_settings.json)*)
(* Remote collaborators (Sheets API, Thryv, Twilio, SMTP, Craigslist) are  *)
(* the environment: every request takes one of the outcomes the code       *)
(* distinguishes, chosen nondeterministically.                             *)
(***************************************************************************)
EXTENDS Integers, Sequences, FiniteSets, TLC

VARIABLES
    \* ---- persistent stores -------------------------------------------
    sheet,          \* remote ledger: the data rows below the header row
    local_leads,    \* local_leads.json: the local mirror
    crm_leads,      \* leads created in the Thryv CRM (listing_url of each)
    crm_enabled,    \* ui_settings.json "enable_thryv_crm"
    creds_present,  \* are_google_oauth_credentials_present()
    \* ---- DataManager instance ----------------------------------------
    sheet_service,  \* self.sheet_service is not None
    dm,             \* the last DataManager call: operation, result, requests
    \* ---- main(): locals and position ---------------------------------
    pc, dry_run, thryv_auth_success, listings, all_leads, idx,
    sms_to_seller_status, thryv_status, exit_code,
    notification_result,  \* what notify_client_about_lead returned last
    net_calls,      \* collaborators contacted over the network in this run
    report,         \* per processed lead: what main attempted for it
    faults,         \* some ledger request of this run was answered by an error
    runs, toggles,  \* counters that bound the exploration
    \* ---- _clean_leads_data taken alone -------------------------------
    clean_in, clean_min_year, clean_out,
    \* ---- ThryvIntegrator and _normalize_phone_number taken alone -------
    thryv,          \* the credentials and the last create_thryv_lead call
    phone_in, phone_out,
    \* ---- runs of main() one after the other -----------------------------
    ledger_before   \* the number of ledger and mirror rows when the run began

vars == << sheet, local_leads, crm_leads, crm_enabled, creds_present,
           sheet_service, dm, pc, dry_run, thryv_auth_success, listings,
           all_leads, idx, sms_to_seller_status, thryv_status, exit_code,
           notification_result, net_calls, report, faults, runs, toggles,
           clean_in, clean_min_year, clean_out, thryv, phone_in, phone_out,
           ledger_before >>

store_vars == << sheet, local_leads, crm_leads, crm_enabled, creds_present,
                 sheet_service, dm >>
main_vars  == << pc, dry_run, thryv_auth_success, listings, all_leads, idx,
                 sms_to_seller_status, thryv_status, exit_code,
                 notification_result, net_calls, report, faults, runs, toggles >>
clean_vars == << clean_in, clean_min_year, clean_out >>
unit_vars  == << thryv, phone_in, phone_out, ledger_before >>

-----------------------------------------------------------------------------
(* Python values *)

\* dict.get(key) of a missing key, and a JSON null
None == "None"

\* a value of a free-form listing field: absent key, None, int or str
\* (a str is its sequence of characters)
Absent    == [t |-> "absent", n |-> 0, s |-> << >>]
PyNone    == [t |-> "none",   n |-> 0, s |-> << >>]
PyInt(n)  == [t |-> "int",    n |-> n, s |-> << >>]
PyStr(s)  == [t |-> "str",    n |-> 0, s |-> s]

\* truth value of `'key' in d and d['key']`
Truthy(v) ==
    CASE v.t = "absent" -> FALSE
      [] v.t = "none"   -> FALSE
      [] v.t = "int"    -> v.n # 0
      [] v.t = "str"    -> v.s # << >>

Digits == {"0", "1", "2", "3", "4", "5", "6", "7", "8", "9"}

DigitVal(c) ==
    CASE c = "0" -> 0 [] c = "1" -> 1 [] c = "2" -> 2 [] c = "3" -> 3
      [] c = "4" -> 4 [] c = "5" -> 5 [] c = "6" -> 6 [] c = "7" -> 7
      [] c = "8" -> 8 [] c = "9" -> 9

RECURSIVE DigitsToInt(_)
DigitsToInt(s) ==
    IF s = << >> THEN 0
    ELSE 10 * DigitsToInt(SubSeq(s, 1, Len(s) - 1)) + DigitVal(s[Len(s)])

AllDigits(s) == s # << >> /\ \A i \in 1..Len(s) : s[i] \in Digits

\* int(x): the identity on an int, the number a string of digits denotes,
\* ValueError/TypeError (ok = FALSE) on anything else
IntOf(v) ==
    CASE v.t = "int"                   -> [ok |-> TRUE,  n |-> v.n]
      [] v.t = "str" /\ AllDigits(v.s) -> [ok |-> TRUE,  n |-> DigitsToInt(v.s)]
      [] OTHER                         -> [ok |-> FALSE, n |-> 0]

\* str.replace(ch, ''): drop every occurrence of the character
RECURSIVE StrRemove(_, _)
StrRemove(s, ch) ==
    IF s = << >> THEN << >>
    ELSE IF Head(s) = ch THEN StrRemove(Tail(s), ch)
    ELSE << Head(s) >> \o StrRemove(Tail(s), ch)

\* position of the first "." of a string, 0 if there is none
RECURSIVE DotAt(_, _)
DotAt(s, i) ==
    IF i > Len(s) THEN 0 ELSE IF s[i] = "." THEN i ELSE DotAt(s, i + 1)

\* int(float(str)): digits, or digits "." digits (truncated toward zero)
IntOfFloatOf(s) ==
    LET d    == DotAt(s, 1)
        whole == IF d = 0 THEN s ELSE SubSeq(s, 1, d - 1)
        frac == IF d = 0 THEN << >> ELSE SubSeq(s, d + 1, Len(s))
    IN  IF d = 0 /\ AllDigits(s)
        THEN [ok |-> TRUE, n |-> DigitsToInt(s)]
        ELSE IF d > 0 /\ (AllDigits(whole) \/ whole = << >>)
                     /\ (AllDigits(frac) \/ frac = << >>)
                     /\ (whole # << >> \/ frac # << >>)
        THEN [ok |-> TRUE, n |-> DigitsToInt(whole)]
        ELSE [ok |-> FALSE, n |-> 0]

\* str(x) of an int: its decimal digits
RECURSIVE StrOfNat(_)
StrOfNat(n) ==
    LET d == << CHOOSE c \in Digits : DigitVal(c) = n % 10 >>
    IN  IF n < 10 THEN d ELSE StrOfNat(n \div 10) \o d

-----------------------------------------------------------------------------
(* DataManager._clean_leads_data *)

DefaultMinVehicleYear == 2018

\* price: remove "$" and ",", then int(float(..)); kept as it is on failure
\* a faulty variant: only the currency symbol is removed
CleanPriceKeepsCommas(p) ==
    IF ~Truthy(p) THEN p
    ELSE LET txt == IF p.t = "int" THEN StrOfNat(p.n) ELSE p.s
             r   == IntOfFloatOf(StrRemove(txt, "$"))
         IN  IF r.ok THEN PyInt(r.n) ELSE p

CleanPrice(p) ==
    IF ~Truthy(p) THEN p
    ELSE LET txt == IF p.t = "int" THEN StrOfNat(p.n) ELSE p.s
             r   == IntOfFloatOf(StrRemove(StrRemove(txt, "$"), ","))
         IN  IF r.ok THEN PyInt(r.n) ELSE p

\* year: int(year) when present and truthy; kept as it is on failure
CleanYear(y) ==
    IF ~Truthy(y) THEN y
    ELSE LET r == IntOf(y) IN IF r.ok THEN PyInt(r.n) ELSE y

\* a filter that keeps a vehicle of any year
PassesAnyYear(y, min_year) == TRUE

\* cleaned_lead.get('year', 0) >= min_year, a TypeError keeping the lead
PassesMinYear(y, min_year) ==
    LET v == IF y.t = "absent" THEN PyInt(0) ELSE y
    IN  IF v.t = "int" THEN v.n >= min_year ELSE TRUE

CleanLead(lead) ==
    [lead EXCEPT !.price = CleanPrice(lead.price), !.year = CleanYear(lead.year)]

\* lines 412-444: the loop body, lead by lead, in input order
RECURSIVE _clean_leads_data(_, _)
_clean_leads_data(leads_data, min_year) ==
    IF leads_data = << >> THEN << >>
    ELSE LET cleaned_lead == CleanLead(Head(leads_data))
         IN  (IF PassesMinYear(cleaned_lead.year, min_year)
              THEN << cleaned_lead >> ELSE << >>)
             \o _clean_leads_data(Tail(leads_data), min_year)

-----------------------------------------------------------------------------
(* Bounds of the exploration *)

MaxRows       == 2   \* data rows of the remote ledger
MaxLocal      == 2   \* leads of the local mirror
MaxAuthErrors == 2   \* 401/403 answers followed by a recursive retry, per call
MaxToggles    == 1   \* changes of the CRM toggle while main runs

-----------------------------------------------------------------------------
(* The environment: answers of the Sheets API and of a credential refresh *)

AuthStatuses      == {"401", "403"}                       \* lines 340, 511, 795
RetryableStatuses == {"429", "500", "502", "503", "504"}  \* line 917
\* What request.execute() does: a response, an HttpError or a TimeoutError.
\* The code tells the statuses apart only by the two lists above, so the
\* environment answers with one status of each kind: success, an auth error,
\* a retryable error, a timeout; and, where the retry helper is used, an HTTP
\* error of neither list.
ErrorStatuses == {"401", "503", "404"}
Answers       == {"200", "401", "503", "timeout"}
RetryAnswers  == Answers \cup {"404"}

\* refresh_google_connection: no internet (service left as it is), service
\* rebuilt, or credentials unusable (service dropped)
RefreshAnswers == {"ok", "nonet", "fail"}

\* the header read of update_thryv_status (lines 750-762): read, or any
\* exception, which the code answers alike with its default columns
HeaderAnswers == {"200", "error"}

\* one request of a call: what was asked, the last answer, the executions made
Call(req, st) ==
    [req |-> req, st |-> st, n |-> 1, tried |-> << st >>, slept |-> << >>]

\* lines 231-278
refresh_google_connection(svc) ==
    { [svc   |-> CASE o = "ok" -> TRUE [] o = "nonet" -> svc [] OTHER -> FALSE,
       ret   |-> (o = "ok"),
       calls |-> << Call("refresh", o) >>] :
      o \in IF creds_present THEN RefreshAnswers ELSE {"nonet", "fail"} }

\* the prologue shared by the four ledger operations (lines 306-319, 456-468,
\* 570-583, 728-740): go = the remote call may be made
EnsureService(svc) ==
    IF svc THEN { [svc |-> TRUE, go |-> TRUE, calls |-> << >>] }
    ELSE IF creds_present
    THEN { [svc |-> r.svc, go |-> r.ret /\ r.svc, calls |-> r.calls] :
           r \in refresh_google_connection(svc) }
    ELSE { [svc |-> FALSE, go |-> FALSE, calls |-> << >>] }

-----------------------------------------------------------------------------
(* DataManager.filter_duplicates *)

\* lines 490-493: the listing_url cells of the data rows that hold one
ExistingUrls(rows) ==
    { rows[i].listing_url : i \in { j \in 1..Len(rows) : rows[j].listing_url # "" } }

\* lead.get('listing_url', '')
UrlOrEmpty(lead) == IF lead.listing_url = None THEN "" ELSE lead.listing_url

\* a faulty variant: a candidate without a listing URL is dropped
UniqueLeadsWithUrl(leads_data, existing_urls) ==
    LET New(lead) == /\ lead.listing_url \notin {None, ""}
                     /\ lead.listing_url \notin existing_urls
    IN  SelectSeq(leads_data, New)

\* lines 495-507
RECURSIVE UniqueLeads(_, _)
UniqueLeads(leads_data, existing_urls) ==
    IF leads_data = << >> THEN << >>
    ELSE LET lead == Head(leads_data)
             listing_url == lead.listing_url
             truthy == listing_url \notin {None, ""}
         IN  (IF truthy /\ listing_url \notin existing_urls THEN << lead >>
              ELSE IF listing_url \in existing_urls THEN << >>
              ELSE << lead >>)
             \o UniqueLeads(Tail(leads_data), existing_urls)

\* a faulty variant: a read that fails leaves no candidate
FilterDropsOnError(leads_data, svc, auth) ==
    { [unique |-> IF st = "200" THEN UniqueLeads(leads_data, ExistingUrls(sheet))
                  ELSE << >>,
       svc |-> svc, calls |-> << Call("get", st) >>] : st \in Answers }

\* lines 446-525; auth = the 401/403 answers already met in this call
RECURSIVE filter_duplicates(_, _, _)
filter_duplicates(leads_data, svc, auth) ==
    UNION { IF ~e.go THEN { [unique |-> leads_data, svc |-> e.svc, calls |-> e.calls] }
            ELSE IF leads_data = << >>
            THEN { [unique |-> << >>, svc |-> e.svc, calls |-> e.calls] }
            ELSE UNION {
              LET got == e.calls \o << Call("get", st) >>
              IN  IF st = "200"
                  THEN { [unique |-> UniqueLeads(leads_data, ExistingUrls(sheet)),
                          svc |-> e.svc, calls |-> got] }
                  ELSE IF st \in AuthStatuses
                  THEN UNION {
                         IF r.ret
                         THEN { [f EXCEPT !.calls = got \o r.calls \o f.calls] :
                                f \in filter_duplicates(leads_data, r.svc, auth + 1) }
                         ELSE { [unique |-> leads_data, svc |-> r.svc,
                                 calls |-> got \o r.calls] } :
                         r \in refresh_google_connection(e.svc) }
                  ELSE { [unique |-> leads_data, svc |-> e.svc, calls |-> got] } :
              st \in IF auth < MaxAuthErrors THEN Answers ELSE Answers \ AuthStatuses } :
            e \in EnsureService(svc) }

-----------------------------------------------------------------------------
(* DataManager.append_leads_to_sheet *)

\* the value a cell holds when read back: a missing key or None is ''
CellOf(v) == IF v.t \in {"absent", "none"} THEN PyStr(<< >>) ELSE v

\* lines 370-398: the row of a lead (the Thryv cells start empty)
_lead_to_row(lead) ==
    [listing_url   |-> UrlOrEmpty(lead),
     year          |-> CellOf(lead.year),
     price         |-> CellOf(lead.price),
     phone_number  |-> CellOf(lead.phone_number),
     thryv_status  |-> "",
     thryv_lead_id |-> ""]

RowsOf(leads) == [i \in 1..Len(leads) |-> _lead_to_row(leads[i])]

\* lines 527-561: the file is read, extended by the leads and rewritten; any
\* exception of the file operations is logged and swallowed (line 560), the
\* file then staying as it was
SaveAnswers == {"200", "error"}

_save_to_local_backup(existing_leads, leads_data) ==
    { [local |-> IF o = "200" THEN existing_leads \o leads_data ELSE existing_leads,
       calls |-> << Call("save_local", o) >>] : o \in SaveAnswers }

\* load_config sets no top-level MIN_VEHICLE_YEAR: line 433 takes its default
ConfigMinYear == DefaultMinVehicleYear

\* lines 326-368: the remote append, after the mirror was written
RemoteAppend(unique_leads, svc, rows, calls) ==
    UNION {
      LET first == calls \o << Call("append", st) >>
      IN  IF st = "200"
          THEN { [ret |-> "True", svc |-> svc, sheet |-> rows \o RowsOf(unique_leads),
                  calls |-> first] }
          ELSE IF st \in AuthStatuses
          THEN UNION {
                 IF r.ret
                 THEN { [ret   |-> CASE st2 = "200" -> "True"
                                     [] st2 = "timeout" -> "raise"
                                     [] OTHER -> "False",
                         svc   |-> r.svc,
                         sheet |-> IF st2 = "200" THEN rows \o RowsOf(unique_leads)
                                   ELSE rows,
                         calls |-> first \o r.calls \o << Call("append", st2) >>] :
                        st2 \in Answers }
                 ELSE { [ret |-> "False", svc |-> r.svc, sheet |-> rows,
                         calls |-> first \o r.calls] } :
                 r \in refresh_google_connection(svc) }
          ELSE { [ret |-> "False", svc |-> svc, sheet |-> rows, calls |-> first] } :
      st \in Answers }

\* lines 280-368.  A result: the value returned ("raise": an exception leaves
\* the call), the stores and the service after the call, the requests made
append_leads_to_sheet(leads_data, svc) ==
    IF leads_data = << >>
    THEN { [ret |-> "False", svc |-> svc, sheet |-> sheet, local |-> local_leads,
            unique |-> << >>, calls |-> << >>] }
    ELSE UNION {
      IF f.unique = << >>
      THEN { [ret |-> "True", svc |-> f.svc, sheet |-> sheet, local |-> local_leads,
              unique |-> << >>, calls |-> f.calls] }
      ELSE UNION {
             LET calls == f.calls \o saved.calls
             IN  UNION {
                   IF ~e.go
                   THEN { [ret |-> "True", svc |-> e.svc, sheet |-> sheet,
                           local |-> saved.local, unique |-> f.unique,
                           calls |-> calls \o e.calls] }
                   ELSE { [ret |-> a.ret, svc |-> a.svc, sheet |-> a.sheet,
                           local |-> saved.local, unique |-> f.unique,
                           calls |-> a.calls] :
                          a \in RemoteAppend(f.unique, e.svc, sheet, calls \o e.calls) } :
                   e \in EnsureService(f.svc) } :
             saved \in _save_to_local_backup(local_leads, f.unique) } :
      f \in filter_duplicates(_clean_leads_data(leads_data, ConfigMinYear), svc, 0) }

-----------------------------------------------------------------------------
(* DataManager._execute_with_retry and get_all_leads *)

MaxRetries == 3   \* max_retries, line 895

RetryDelay == 2   \* retry_delay, line 895

\* a faulty variant: every error is tried again, whatever its status
RECURSIVE RetryEveryError(_, _, _)
RetryEveryError(attempt, max_retries, retry_delay) ==
    UNION { IF st = "200"
            THEN { [st |-> st, n |-> attempt, tried |-> << st >>, slept |-> << >>] }
            ELSE IF attempt < max_retries
            THEN { [r EXCEPT !.tried = << st >> \o @,
                             !.slept = << retry_delay >> \o @] :
                   r \in RetryEveryError(attempt + 1, max_retries, retry_delay * 2) }
            ELSE { [st |-> st, n |-> attempt, tried |-> << st >>,
                    slept |-> << retry_delay >>] } :
            st \in RetryAnswers }

\* lines 895-930: the answer that ends the helper, the executions made, their
\* answers and the delays slept.  A non-retryable HttpError is raised at
\* once; a retryable one or a timeout is followed by a sleep of retry_delay,
\* which then doubles, and is tried again until max_retries executions were
\* made, then raised
RECURSIVE _execute_with_retry(_, _, _)
_execute_with_retry(attempt, max_retries, retry_delay) ==
    UNION { IF st = "200" \/ (st \in ErrorStatuses /\ st \notin RetryableStatuses)
            THEN { [st |-> st, n |-> attempt, tried |-> << st >>, slept |-> << >>] }
            ELSE IF attempt < max_retries
            THEN { [r EXCEPT !.tried = << st >> \o @,
                             !.slept = << retry_delay >> \o @] :
                   r \in _execute_with_retry(attempt + 1, max_retries,
                                             retry_delay * 2) }
            ELSE { [st |-> st, n |-> attempt, tried |-> << st >>,
                    slept |-> << retry_delay >>] } :
            st \in RetryAnswers }

\* line 604-609 and 652-670: the dicts the caller gets
LeadOfRow(row) ==
    [listing_url |-> row.listing_url, thryv_status |-> row.thryv_status]
LeadOfMirror(lead) ==
    [listing_url |-> lead.listing_url, thryv_status |-> None]

\* a faulty variant: the mirror file is taken as missing
LocalBackupIgnored == << >>

_get_leads_from_local_backup ==
    [i \in 1..Len(local_leads) |-> LeadOfMirror(local_leads[i])]

\* result.get('values', []) of a read that was answered (line 598): the
\* header row and the data rows; a sheet without data rows has its header row
\* (written by _create_new_sheet, lines 846-850) or, when it was found blank,
\* no row at all
ValuesOf(rows) == IF rows = << >> THEN {"header", "empty"} ELSE {"rows"}

\* lines 563-650
get_all_leads(svc) ==
    UNION { IF ~e.go
            THEN { [ret |-> _get_leads_from_local_backup, from |-> "local",
                    values |-> "none", svc |-> e.svc, calls |-> e.calls] }
            ELSE UNION {
                   LET calls == e.calls \o << [req |-> "get", st |-> x.st, n |-> x.n,
                                               tried |-> x.tried,
                                               slept |-> x.slept] >>
                   IN  IF x.st = "200"
                       THEN { IF v = "empty"
                              THEN [ret |-> _get_leads_from_local_backup,
                                    from |-> "local", values |-> v,
                                    svc |-> e.svc, calls |-> calls]
                              ELSE [ret |-> [i \in 1..Len(sheet) |-> LeadOfRow(sheet[i])],
                                    from |-> "sheet", values |-> v,
                                    svc |-> e.svc, calls |-> calls] :
                              v \in ValuesOf(sheet) }
                       ELSE { [ret |-> _get_leads_from_local_backup, from |-> "local",
                               values |-> "none", svc |-> e.svc, calls |-> calls] } :
                   x \in _execute_with_retry(1, MaxRetries, RetryDelay) } :
            e \in EnsureService(svc) }

-----------------------------------------------------------------------------
(* DataManager.update_thryv_status *)

BlankRow ==
    [listing_url |-> "", year |-> PyStr(<< >>), price |-> PyStr(<< >>),
     phone_number |-> PyStr(<< >>), thryv_status |-> "", thryv_lead_id |-> ""]

\* values().update on one cell of sheet row row_index (row 1 is the header, so
\* data row row_index - 1); rows between the last one and the cell are blank
PadTo(rows, k) ==
    IF k <= Len(rows) THEN rows
    ELSE rows \o [i \in 1..(k - Len(rows)) |-> BlankRow]

\* faulty variants: the status write replaces the whole row; the lead id is
\* written into the listing URL column
WriteStatusWholeRow(rows, row_index, v) ==
    IF row_index < 2 THEN rows
    ELSE [PadTo(rows, row_index - 1) EXCEPT
            ![row_index - 1] = [BlankRow EXCEPT !.thryv_status = v]]

WriteLeadIdInUrlColumn(rows, row_index, v) ==
    IF row_index < 2 THEN rows
    ELSE [PadTo(rows, row_index - 1) EXCEPT ![row_index - 1].listing_url = v]

WriteStatus(rows, row_index, v) ==
    IF row_index < 2 THEN rows
    ELSE [PadTo(rows, row_index - 1) EXCEPT ![row_index - 1].thryv_status = v]

WriteLeadId(rows, row_index, v) ==
    IF row_index < 2 THEN rows
    ELSE [PadTo(rows, row_index - 1) EXCEPT ![row_index - 1].thryv_lead_id = v]

\* lines 716-809; thryv_lead_id = "" stands for the default None
RECURSIVE update_thryv_status(_, _, _, _, _, _)
update_thryv_status(row_index, status, thryv_lead_id, svc, rows, auth) ==
    UNION {
      IF ~e.go
      THEN { [ret |-> FALSE, svc |-> e.svc, sheet |-> rows, calls |-> e.calls] }
      ELSE UNION {
        LET answers == IF auth < MaxAuthErrors THEN Answers ELSE Answers \ AuthStatuses
            hdr     == e.calls \o << Call("header", h) >>
            \* an error of either cell write: lines 793-809
            Failed(st, written, calls) ==
                IF st \in AuthStatuses
                THEN UNION {
                       IF r.ret
                       THEN { [u EXCEPT !.calls = calls \o r.calls \o u.calls] :
                              u \in update_thryv_status(row_index, status,
                                       thryv_lead_id, r.svc, written, auth + 1) }
                       ELSE { [ret |-> FALSE, svc |-> r.svc, sheet |-> written,
                               calls |-> calls \o r.calls] } :
                       r \in refresh_google_connection(e.svc) }
                ELSE { [ret |-> FALSE, svc |-> e.svc, sheet |-> written,
                        calls |-> calls] }
        IN  UNION {
              LET c1 == hdr \o << Call("update_status", st1) >>
                  w1 == WriteStatus(rows, row_index, status)
              IN  IF st1 # "200" THEN Failed(st1, rows, c1)
                  ELSE IF thryv_lead_id = ""
                  THEN { [ret |-> TRUE, svc |-> e.svc, sheet |-> w1, calls |-> c1] }
                  ELSE UNION {
                         LET c2 == c1 \o << Call("update_id", st2) >>
                         IN  IF st2 = "200"
                             THEN { [ret |-> TRUE, svc |-> e.svc,
                                     sheet |-> WriteLeadId(w1, row_index, thryv_lead_id),
                                     calls |-> c2] }
                             ELSE Failed(st2, w1, c2) :
                         st2 \in answers } :
              st1 \in answers } :
        h \in HeaderAnswers } :
      e \in EnsureService(svc) }

-----------------------------------------------------------------------------
(* Inputs *)

Chars(n) == StrOfNat(n)

\* a listing as the tests and the sample data give it: the URL under
\* 'listing_url' (tests/test_main_agent.py 81-91, main_agent.py 104-127)
LeadA == [listing_url |-> "u1", url |-> None,
          year |-> PyInt(DefaultMinVehicleYear), price |-> PyInt(22500),
          phone_number |-> PyStr(<< "8", "0", "8", "-", "5", "5", "5", "-",
                                    "1", "2", "3", "4" >>)]
\* a seller phone that cannot be normalised
LeadB == [listing_url |-> "u2", url |-> None,
          year |-> PyInt(DefaultMinVehicleYear + 2), price |-> PyInt(20800),
          phone_number |-> PyStr(<< "1", "2", "3" >>)]
\* a listing as CraigslistScraper.parse_listings builds it (lines 119-129):
\* the URL under 'url', no 'listing_url', no 'phone_number'
LeadS == [listing_url |-> None, url |-> "u3",
          year |-> PyInt(DefaultMinVehicleYear + 1),
          price |-> PyStr(<< "$", "9", "0", "0" >>), phone_number |-> Absent]
\* a vehicle older than the minimum year
LeadOld == [listing_url |-> "u4", url |-> None,
            year |-> PyInt(DefaultMinVehicleYear - 1), price |-> PyInt(5000),
            phone_number |-> PyNone]

\* the batches a scrape cycle hands to the ledger store: empty, one listing
\* of each shape, the same listing twice, two listings in either order,
\* a listing next to one that is too old
Batches ==
    { << >>, << LeadA >>, << LeadB >>, << LeadS >>, << LeadOld >>,
      << LeadA, LeadA >>, << LeadA, LeadB >>, << LeadB, LeadA >>,
      << LeadOld, LeadA >>, << LeadS, LeadA >> }

\* the URL a listing was found at, under whichever key it carries it
ListingUrlOf(lead) ==
    IF lead.listing_url # None THEN lead.listing_url ELSE lead.url

-----------------------------------------------------------------------------
(* Initial values *)

\* the arguments of an update_thryv_status call, none for the other calls
NoArgs == [row_index |-> 0, status |-> "", thryv_lead_id |-> ""]

NoCall == [op |-> "none", batch |-> << >>, ret |-> "None", unique |-> << >>,
           calls |-> << >>, leads |-> << >>, values |-> "none",
           args |-> NoArgs]

InitStores ==
    /\ sheet = << >>
    /\ local_leads = << >>
    /\ crm_leads = {}
    /\ creds_present \in BOOLEAN
    /\ dm = NoCall

\* notification_result before the first notify_client_about_lead call
NotNotified == [called |-> FALSE, email |-> FALSE, sms |-> FALSE,
                email_sent |-> FALSE, sms_sent |-> FALSE, notified |-> FALSE]

InitMainIdle ==
    /\ pc = "idle" /\ dry_run = FALSE /\ thryv_auth_success = FALSE
    /\ listings = << >> /\ all_leads = << >> /\ idx = 0
    /\ sms_to_seller_status = "Not Attempted" /\ thryv_status = "unbound"
    /\ exit_code = -1 /\ net_calls = {} /\ report = << >> /\ faults = FALSE
    /\ runs = 0 /\ toggles = 0 /\ notification_result = NotNotified

InitCleanIdle ==
    /\ clean_in = << >> /\ clean_min_year = DefaultMinVehicleYear
    /\ clean_out = [done |-> FALSE, leads |-> << >>]

\* no create_thryv_lead call yet
NoThryvCall == [op |-> "none", lead |-> "", posts |-> 0,
                answer |-> [status |-> "none", body |-> "none"],
                success |-> FALSE, value |-> "", raised |-> FALSE]

InitUnitIdle ==
    /\ thryv = [api_key |-> TRUE, account_id |-> TRUE, call |-> NoThryvCall]
    /\ phone_in = PyNone /\ phone_out = [done |-> FALSE, ok |-> FALSE, s |-> << >>]
    /\ ledger_before = [sheet |-> 0, local |-> 0]

-----------------------------------------------------------------------------
(* The ledger store taken alone: any sequence of calls on one DataManager *)

\* DataManager.__init__ (lines 45-128): the service exists when the network
\* probe, the credentials and the service build all succeeded
InitDM ==
    /\ InitStores /\ InitMainIdle /\ InitCleanIdle /\ InitUnitIdle
    /\ crm_enabled = TRUE
    /\ sheet_service \in (IF creds_present THEN BOOLEAN ELSE {FALSE})

WithinBounds(rows, mirror) == Len(rows) <= MaxRows /\ Len(mirror) <= MaxLocal

DMAppend ==
    /\ dm.op = "none"
    /\ \E batch \in Batches : \E r \in append_leads_to_sheet(batch, sheet_service) :
        /\ WithinBounds(r.sheet, r.local)
        /\ sheet' = r.sheet /\ local_leads' = r.local /\ sheet_service' = r.svc
        /\ dm' = [op |-> "append", batch |-> batch, ret |-> r.ret,
                  unique |-> r.unique, calls |-> r.calls,
                  leads |-> << >>, values |-> "none", args |-> NoArgs]
        /\ UNCHANGED << crm_leads, crm_enabled, creds_present >>
        /\ UNCHANGED main_vars /\ UNCHANGED clean_vars /\ UNCHANGED unit_vars

DMGetAll ==
    /\ dm.op = "none"
    /\ \E r \in get_all_leads(sheet_service) :
        /\ sheet_service' = r.svc
        /\ dm' = [op |-> "get_all", batch |-> << >>, ret |-> r.from,
                  unique |-> << >>, calls |-> r.calls,
                  leads |-> r.ret, values |-> r.values, args |-> NoArgs]
        /\ UNCHANGED << sheet, local_leads, crm_leads, crm_enabled, creds_present >>
        /\ UNCHANGED main_vars /\ UNCHANGED clean_vars /\ UNCHANGED unit_vars

\* an explicit refresh(), as the web interface issues it
DMRefresh ==
    /\ dm.op = "none"
    /\ \E r \in refresh_google_connection(sheet_service) :
        /\ sheet_service' = r.svc
        /\ dm' = [op |-> "refresh", batch |-> << >>,
                  ret |-> IF r.ret THEN "True" ELSE "False",
                  unique |-> << >>, calls |-> r.calls,
                  leads |-> << >>, values |-> "none", args |-> NoArgs]
        /\ UNCHANGED << sheet, local_leads, crm_leads, crm_enabled, creds_present >>
        /\ UNCHANGED main_vars /\ UNCHANGED clean_vars /\ UNCHANGED unit_vars

\* the call returns to its caller; the next call may start
DMReturn ==
    /\ dm.op # "none"
    /\ dm' = NoCall
    /\ UNCHANGED << sheet, local_leads, crm_leads, crm_enabled, creds_present,
                    sheet_service >>
    /\ UNCHANGED main_vars /\ UNCHANGED clean_vars /\ UNCHANGED unit_vars

\* update_thryv_status on a data row of the sheet or the row after the last,
\* with and without a Thryv lead id (main_agent.py 278-304); of the call the
\* arguments, the value returned and the stores afterwards
UpdateStatuses == { "Sent to Thryv" }
UpdateLeadIds == { "", "T1" }

DMUpdate ==
    /\ dm.op = "none"
    /\ \E row_index \in 2..(MaxRows + 1), status \in UpdateStatuses,
          thryv_lead_id \in UpdateLeadIds :
       \E r \in update_thryv_status(row_index, status, thryv_lead_id,
                                    sheet_service, sheet, 0) :
        /\ sheet' = r.sheet /\ sheet_service' = r.svc
        /\ dm' = [op |-> "update", batch |-> << >>,
                  ret |-> IF r.ret THEN "True" ELSE "False",
                  unique |-> << >>, calls |-> << >>,
                  leads |-> << >>, values |-> "none",
                  args |-> [row_index |-> row_index, status |-> status,
                            thryv_lead_id |-> thryv_lead_id]]
        /\ UNCHANGED << local_leads, crm_leads, crm_enabled, creds_present >>
        /\ UNCHANGED main_vars /\ UNCHANGED clean_vars /\ UNCHANGED unit_vars

NextDM == DMAppend \/ DMGetAll \/ DMRefresh \/ DMReturn

SpecDM == InitDM /\ [][NextDM]_vars


-----------------------------------------------------------------------------
(* _clean_leads_data taken alone: one record, one minimum year *)

YearInputs ==
    { Absent, PyNone, PyStr(<< >>), PyStr(<< "n", "/", "a" >>), PyInt(0) }
    \cup { PyInt(y) : y \in (DefaultMinVehicleYear - 1)..(DefaultMinVehicleYear + 2) }
    \cup { PyStr(Chars(y)) :
           y \in (DefaultMinVehicleYear - 1)..(DefaultMinVehicleYear + 2) }

PriceInputs ==
    { Absent, PyInt(20000),
      PyStr(<< "$", "2", "0", ",", "0", "0", "0" >>),
      PyStr(<< "1", ",", "5", "0", "0" >>), PyStr(<< "$", "9", "0", "0" >>),
      PyStr(<< "N", "/", "A" >>),
      PyStr(<< "2", "2", "5", "0", "0", ".", "5", "0" >>) }

MinYears == { DefaultMinVehicleYear, DefaultMinVehicleYear + 1 }

InitClean ==
    /\ InitStores /\ InitMainIdle /\ InitUnitIdle
    /\ sheet_service = FALSE /\ crm_enabled = TRUE
    /\ clean_min_year \in MinYears
    /\ clean_in \in { << [listing_url |-> "u1", url |-> None, year |-> y,
                         price |-> p, phone_number |-> PyNone] >> :
                      y \in YearInputs, p \in PriceInputs }
    /\ clean_out = [done |-> FALSE, leads |-> << >>]

CleanApply ==
    /\ ~clean_out.done
    /\ clean_out' = [done |-> TRUE,
                     leads |-> _clean_leads_data(clean_in, clean_min_year)]
    /\ UNCHANGED << clean_in, clean_min_year >>
    /\ UNCHANGED store_vars /\ UNCHANGED main_vars /\ UNCHANGED unit_vars

NextClean == CleanApply

SpecClean == InitClean /\ [][NextClean]_vars

-----------------------------------------------------------------------------
(* The same batch ingested by two successive append_leads_to_sheet calls *)

InitTwice ==
    /\ InitStores /\ InitCleanIdle /\ InitUnitIdle /\ crm_enabled = TRUE
    /\ sheet_service \in (IF creds_present THEN BOOLEAN ELSE {FALSE})
    /\ pc = "idle" /\ dry_run = FALSE /\ thryv_auth_success = FALSE
    /\ listings \in Batches \ { << >> }
    /\ all_leads = << >> /\ idx = 0
    /\ sms_to_seller_status = "Not Attempted" /\ thryv_status = "unbound"
    /\ exit_code = -1 /\ net_calls = {} /\ report = << >> /\ faults = FALSE
    /\ runs = 0 /\ toggles = 0 /\ notification_result = NotNotified

\* one of the two calls; dm keeps the requests of both
IngestAgain ==
    /\ runs < 2
    /\ \E r \in append_leads_to_sheet(listings, sheet_service) :
        /\ sheet' = r.sheet /\ local_leads' = r.local /\ sheet_service' = r.svc
        /\ dm' = [op |-> "append", batch |-> listings, ret |-> r.ret,
                  unique |-> r.unique, calls |-> dm.calls \o r.calls,
                  leads |-> << >>, values |-> "none", args |-> NoArgs]
    /\ runs' = runs + 1
    /\ UNCHANGED << crm_leads, crm_enabled, creds_present >>
    /\ UNCHANGED << pc, dry_run, thryv_auth_success, listings, all_leads, idx,
                    sms_to_seller_status, thryv_status, exit_code, net_calls,
                    report, faults, toggles >>
    /\ UNCHANGED clean_vars /\ UNCHANGED unit_vars /\ UNCHANGED notification_result

NextTwice == IngestAgain

SpecTwice == InitTwice /\ [][NextTwice]_vars

-----------------------------------------------------------------------------
(* Properties of the ledger store *)

\* the data rows of the remote ledger that carry the URL
RowsWithUrl(u) == Cardinality({ i \in 1..Len(sheet) : sheet[i].listing_url = u })

\* every request of the recorded calls was answered without an error
AllAnswered(calls) == \A i \in 1..Len(calls) : calls[i].st \in {"200", "ok"}

\* C1: idempotent dedup.  When the same batch went through two successive
\* append calls on a reachable ledger that answered every request, each
\* listing of the batch that passes the year filter has exactly one ledger row
\* with its listing URL.
C1_IdempotentDedup ==
    (runs = 2 /\ sheet_service /\ AllAnswered(dm.calls)) =>
        LET kept == _clean_leads_data(listings, ConfigMinYear)
        IN  \A k \in 1..Len(kept) : RowsWithUrl(ListingUrlOf(kept[k])) = 1

\* C2: in every reachable state of the ledger store, whatever append calls
\* were made, no two data rows of the remote ledger carry the same
\* listing_url.
C2_AtMostOneRowPerUrl ==
    \A i, j \in 1..Len(sheet) :
        (sheet[i].listing_url # "" /\ sheet[i].listing_url = sheet[j].listing_url)
            => i = j

\* positions of the remote append requests of the last call
AppendRequests == { i \in 1..Len(dm.calls) : dm.calls[i].req = "append" }

\* C9: no lead is lost.  After an append call that kept leads through
\* normalisation and duplicate filtering, the mirror was written before every
\* remote append request of the call, and each kept lead is in the mirror,
\* whatever became of the remote append.
C9_NoLeadLost ==
    (dm.op = "append" /\ dm.unique # << >>) =>
        /\ \A i \in AppendRequests :
               \E j \in 1..(i - 1) :
                   dm.calls[j].req = "save_local" /\ dm.calls[j].st = "200"
        /\ \A k \in 1..Len(dm.unique) :
               \E m \in 1..Len(local_leads) : local_leads[m] = dm.unique[k]

\* C10: append retry.  When the first remote append of a call fails with a
\* retryable status or an auth status, the next request of the call is a
\* credential refresh, and after a successful refresh the append is requested
\* once more; after any other failure the call makes no further request and
\* returns False.
C10_AppendRetry ==
    (dm.op = "append" /\ AppendRequests # {}) =>
        LET first == CHOOSE i \in AppendRequests : \A j \in AppendRequests : i <= j
            st    == dm.calls[first].st
        IN  /\ st \in (RetryableStatuses \cup AuthStatuses) =>
                /\ first < Len(dm.calls)
                /\ dm.calls[first + 1].req = "refresh"
                /\ Cardinality(AppendRequests) =
                       (IF dm.calls[first + 1].st = "ok" THEN 2 ELSE 1)
            /\ st \notin ({"200"} \cup RetryableStatuses \cup AuthStatuses) =>
                /\ first = Len(dm.calls)
                /\ dm.ret = "False"

-----------------------------------------------------------------------------
(* Properties of the normaliser *)

\* the record given to the normaliser, and whether it came out
CleanRecord == clean_in[1]
CleanKept   == clean_out.leads # << >>

\* C3: year filter.  A record whose year equals min_year is kept, one whose
\* year equals min_year - 1 is dropped, and a record without a year field, or
\* with a year that cannot be compared with min_year, is kept.
C3_YearFilter ==
    clean_out.done =>
        LET y == CleanRecord.year
        IN  /\ (y = PyInt(clean_min_year)) => CleanKept
            /\ (y = PyInt(clean_min_year - 1)) => ~CleanKept
            /\ (y.t \in {"absent", "none"} \/ (y.t = "str" /\ ~AllDigits(y.s)))
                   => CleanKept

-----------------------------------------------------------------------------
(* MessagingManager: the seller's phone number *)

\* lines 77-108: the digits of the number, completed to E.164 by their count;
\* ok = FALSE stands for the None the code returns
\* a faulty variant: a local number gets the country code but no area code
NormalizeWithoutAreaCode(phone) ==
    LET digits_only == SelectSeq(phone, LAMBDA c : c \in Digits)
    IN  IF Len(digits_only) \in {7, 10}
        THEN [ok |-> TRUE, s |-> << "+", "1" >> \o digits_only]
        ELSE [ok |-> FALSE, s |-> << >>]

_normalize_phone_number(phone) ==
    LET digits_only == SelectSeq(phone, LAMBDA c : c \in Digits)
        n == Len(digits_only)
    IN  IF phone = << >> THEN [ok |-> FALSE, s |-> << >>]
        ELSE IF n = 10 THEN [ok |-> TRUE, s |-> << "+", "1" >> \o digits_only]
        ELSE IF n = 11 /\ digits_only[1] = "1"
        THEN [ok |-> TRUE, s |-> << "+" >> \o digits_only]
        ELSE IF n = 7
        THEN [ok |-> TRUE, s |-> << "+", "1", "8", "0", "8" >> \o digits_only]
        ELSE IF n >= 10
        THEN IF digits_only[1] # "1"
             THEN [ok |-> TRUE, s |-> << "+", "1" >> \o SubSeq(digits_only, n - 9, n)]
             ELSE [ok |-> TRUE, s |-> << "+" >> \o digits_only]
        ELSE [ok |-> FALSE, s |-> << >>]

\* send_listing_inquiry (160-195) reaches the gateway when extract_phone_number
\* (39-41) and then send_sms (125-129) both get a number out of the field
ReachesGateway(phone) ==
    /\ phone.t = "str"
    /\ _normalize_phone_number(phone.s).ok
    /\ _normalize_phone_number(_normalize_phone_number(phone.s).s).ok

-----------------------------------------------------------------------------
(* main(): one run of the orchestrator *)

\* the ledger calls of main, by what main can see of them: the value
\* returned, the stores and the service afterwards, whether a request was
\* answered by an error, whether the network was used
MainAppend(batch) ==
    { [ret |-> r.ret, svc |-> r.svc, sheet |-> r.sheet, local |-> r.local,
       fault |-> ~AllAnswered(r.calls),
       net |-> (\E i \in 1..Len(r.calls) : r.calls[i].req # "save_local")] :
      r \in append_leads_to_sheet(batch, sheet_service) }

MainGetAll ==
    { [ret |-> r.ret, svc |-> r.svc, fault |-> ~AllAnswered(r.calls),
       net |-> (r.calls # << >>)] :
      r \in get_all_leads(sheet_service) }

MainUpdate(row_index, status, thryv_lead_id) ==
    { [svc |-> r.svc, sheet |-> r.sheet, fault |-> ~AllAnswered(r.calls),
       net |-> (r.calls # << >>)] :
      r \in update_thryv_status(row_index, status, thryv_lead_id,
                                sheet_service, sheet, 0) }

\* the ledger under appends, reads and status updates; of an append the
\* value returned and the stores afterwards
RowBatches == { << LeadA >>, << LeadB, LeadA >> }

RowsAppend ==
    /\ dm.op = "none"
    /\ \E batch \in RowBatches : \E r \in MainAppend(batch) :
        /\ WithinBounds(r.sheet, r.local)
        /\ sheet' = r.sheet /\ local_leads' = r.local /\ sheet_service' = r.svc
        /\ dm' = [op |-> "append", batch |-> batch, ret |-> r.ret,
                  unique |-> << >>, calls |-> << >>,
                  leads |-> << >>, values |-> "none", args |-> NoArgs]
        /\ UNCHANGED << crm_leads, crm_enabled, creds_present >>
        /\ UNCHANGED main_vars /\ UNCHANGED clean_vars /\ UNCHANGED unit_vars

NextRows == RowsAppend \/ DMGetAll \/ DMUpdate \/ DMReturn

SpecRows == InitDM /\ [][NextRows]_vars

\* line 189 and 207: the lead is one of this run's listings and carries no
\* Thryv status yet
Selected(lead) ==
    /\ \E i \in 1..Len(listings) : listings[i].listing_url = lead.listing_url
    /\ lead.thryv_status \in {None, ""}

\* line 208: listing_urls[listing_url]; of listings that share the key the
\* dict keeps the last one
CurrentLead(listing_url) ==
    listings[CHOOSE i \in 1..Len(listings) :
                 /\ listings[i].listing_url = listing_url
                 /\ \A j \in (i + 1)..Len(listings) :
                        listings[j].listing_url # listing_url]

\* what main did for one selected lead
NewEntry(listing_url, row) ==
    [url |-> listing_url, row |-> row, sms |-> "", sms_failed |-> FALSE,
     notify |-> "", crm |-> "", reads |-> {}, created |-> FALSE,
     outcome |-> "", lead_id |-> "", complete |-> FALSE, run |-> runs]

Last == Len(report)

InitMain ==
    /\ InitStores /\ InitCleanIdle /\ InitUnitIdle
    /\ crm_enabled \in BOOLEAN
    /\ sheet_service = FALSE
    /\ pc = "idle" /\ dry_run \in BOOLEAN /\ thryv_auth_success = FALSE
    /\ listings = << >> /\ all_leads = << >> /\ idx = 0
    /\ sms_to_seller_status = "Not Attempted" /\ thryv_status = "unbound"
    /\ exit_code = -1 /\ net_calls = {} /\ report = << >> /\ faults = FALSE
    /\ runs = 0 /\ toggles = 0 /\ notification_result = NotNotified

\* lines 57-82: the managers are built and Thryv is asked to authenticate,
\* in a dry run as in a live one.  DataManager.__init__ (45-128) builds the
\* service and reads the configured spreadsheet when the machine is online
\* and the credentials are valid; authenticate (41-68) sends a GET unless the
\* API key or the account id is missing
Start ==
    /\ pc = "idle"
    /\ \E built \in (IF creds_present THEN BOOLEAN ELSE {FALSE}),
          auth \in {"ok", "denied", "unconfigured"} :
        /\ sheet_service' = built
        /\ thryv_auth_success' = (auth = "ok")
        /\ net_calls' = (IF built THEN {"ledger"} ELSE {})
                        \cup (IF auth # "unconfigured" THEN {"crm"} ELSE {})
    /\ pc' = "scrape"
    /\ UNCHANGED << sheet, local_leads, crm_leads, crm_enabled, creds_present, dm >>
    /\ UNCHANGED << dry_run, listings, all_leads, idx, sms_to_seller_status,
                    thryv_status, exit_code, report, faults, runs, toggles >>
    /\ UNCHANGED clean_vars /\ UNCHANGED unit_vars /\ UNCHANGED notification_result

\* lines 90-140: the sample listings in a dry run, the scraped ones otherwise;
\* without listings the run is over (line 312)
ScrapeFrom(found_sets) ==
    /\ pc = "scrape"
    /\ \E found \in found_sets :
        /\ listings' = found
        /\ pc' = IF found = << >> THEN "done" ELSE "persist"
        /\ exit_code' = IF found = << >> THEN 0 ELSE exit_code
    /\ net_calls' = IF dry_run THEN net_calls ELSE net_calls \cup {"scraper"}
    /\ UNCHANGED store_vars
    /\ UNCHANGED << dry_run, thryv_auth_success, all_leads, idx,
                    sms_to_seller_status, thryv_status, report, faults, runs,
                    toggles >>
    /\ UNCHANGED clean_vars /\ UNCHANGED unit_vars /\ UNCHANGED notification_result

Scrape == ScrapeFrom(Batches)

\* lines 149-168: success = append_leads_to_sheet(listings), True in a dry
\* run; without success the run is over (line 309), an exception leaving the
\* call ends main with 1 (line 322)
Persist ==
    /\ pc = "persist"
    /\ IF dry_run
       THEN /\ pc' = "readback"
            /\ UNCHANGED << sheet, local_leads, sheet_service, exit_code, faults,
                            net_calls >>
       ELSE \E r \in MainAppend(listings) :
            /\ sheet' = r.sheet /\ local_leads' = r.local /\ sheet_service' = r.svc
            /\ faults' = (faults \/ r.fault)
            /\ net_calls' = IF r.net THEN net_calls \cup {"ledger"} ELSE net_calls
            /\ pc' = IF r.ret = "True" THEN "readback" ELSE "done"
            /\ exit_code' = CASE r.ret = "True"  -> exit_code
                              [] r.ret = "False" -> 0
                              [] OTHER           -> 1
    /\ UNCHANGED << crm_leads, crm_enabled, creds_present, dm >>
    /\ UNCHANGED << dry_run, thryv_auth_success, listings, all_leads, idx,
                    sms_to_seller_status, thryv_status, report, runs, toggles >>
    /\ UNCHANGED clean_vars /\ UNCHANGED unit_vars /\ UNCHANGED notification_result

\* lines 174-182: a dry run takes the listings themselves for the stored leads
DryAllLeads(found) ==
    [i \in 1..Len(found) |->
        [listing_url |-> found[i].listing_url, thryv_status |-> None]]

\* lines 170-199: all_leads, then the loop starts at its first element
Readback ==
    /\ pc = "readback"
    /\ IF dry_run
       THEN /\ all_leads' = DryAllLeads(listings)
            /\ UNCHANGED << sheet_service, faults, net_calls >>
       ELSE \E r \in MainGetAll :
            /\ all_leads' = r.ret
            /\ sheet_service' = r.svc
            /\ faults' = (faults \/ r.fault)
            /\ net_calls' = IF r.net THEN net_calls \cup {"ledger"} ELSE net_calls
    /\ idx' = 1
    /\ pc' = "loop"
    /\ UNCHANGED << sheet, local_leads, crm_leads, crm_enabled, creds_present, dm >>
    /\ UNCHANGED << dry_run, thryv_auth_success, listings, sms_to_seller_status,
                    thryv_status, exit_code, report, runs, toggles >>
    /\ UNCHANGED clean_vars /\ UNCHANGED unit_vars /\ UNCHANGED notification_result

\* a loop that starts a lead with the notification of the operator
LoopSkipsSeller ==
    /\ pc = "loop"
    /\ IF idx > Len(all_leads)
       THEN /\ pc' = "done" /\ exit_code' = 0
            /\ UNCHANGED << idx, report >>
       ELSE IF Selected(all_leads[idx])
       THEN /\ pc' = "operator"
            /\ report' = Append(report, NewEntry(all_leads[idx].listing_url, idx + 1))
            /\ UNCHANGED << idx, exit_code >>
       ELSE /\ idx' = idx + 1
            /\ UNCHANGED << pc, report, exit_code >>
    /\ UNCHANGED store_vars
    /\ UNCHANGED << dry_run, thryv_auth_success, listings, all_leads,
                    sms_to_seller_status, thryv_status, net_calls, faults, runs,
                    toggles >>
    /\ UNCHANGED clean_vars /\ UNCHANGED unit_vars /\ UNCHANGED notification_result

\* lines 203-211 and 318-320: the next element of all_leads; index is its
\* position counted from 2
Loop ==
    /\ pc = "loop"
    /\ IF idx > Len(all_leads)
       THEN /\ pc' = "done" /\ exit_code' = 0
            /\ UNCHANGED << idx, report >>
       ELSE IF Selected(all_leads[idx])
       THEN /\ pc' = "seller"
            /\ report' = Append(report, NewEntry(all_leads[idx].listing_url, idx + 1))
            /\ UNCHANGED << idx, exit_code >>
       ELSE /\ idx' = idx + 1
            /\ UNCHANGED << pc, report, exit_code >>
    /\ UNCHANGED store_vars
    /\ UNCHANGED << dry_run, thryv_auth_success, listings, all_leads,
                    sms_to_seller_status, thryv_status, net_calls, faults, runs,
                    toggles >>
    /\ UNCHANGED clean_vars /\ UNCHANGED unit_vars /\ UNCHANGED notification_result

\* lines 213-235: the inquiry to the seller.  send_listing_inquiry returns a
\* dict whether the message went out or not, and any dict it returns is true
Seller ==
    /\ pc = "seller"
    /\ LET phone == CurrentLead(report[Last].url).phone_number
       IN  IF ~Truthy(phone)
           THEN /\ sms_to_seller_status' = "No Phone Number"
                /\ report' = [report EXCEPT ![Last].sms = "skip"]
                /\ UNCHANGED net_calls
           ELSE IF dry_run
           THEN /\ sms_to_seller_status' = "Would Send (Dry Run)"
                /\ report' = [report EXCEPT ![Last].sms = "attempt"]
                /\ UNCHANGED net_calls
           ELSE \E delivered \in (IF ReachesGateway(phone) THEN BOOLEAN ELSE {FALSE}) :
                /\ sms_to_seller_status' = "Sent Successfully"
                /\ report' = [report EXCEPT ![Last].sms = "attempt",
                                            ![Last].sms_failed = ~delivered]
                /\ net_calls' = IF ReachesGateway(phone)
                                THEN net_calls \cup {"sms"} ELSE net_calls
    /\ pc' = "operator"
    /\ UNCHANGED store_vars
    /\ UNCHANGED << dry_run, thryv_auth_success, listings, all_leads, idx,
                    thryv_status, exit_code, faults, runs, toggles >>
    /\ UNCHANGED clean_vars /\ UNCHANGED unit_vars /\ UNCHANGED notification_result

\* notification_manager.py 51-92: True when the SMTP server took the message,
\* False without the mail settings and on any exception
EmailOutcomes == {"sent", "error"}
send_email_notification(o) == (o = "sent")

\* messaging_manager.py 110-158: send_sms returns a dict on every path, with
\* 'status' 'sent' or 'failed'; notification_manager.py 170-204 returns False
\* without a client phone and otherwise tests the dict itself (`if result:`)
ClientSmsOutcomes == {"no_client_phone", "sent", "failed"}
send_sms(o) == [status |-> o]
DictTruthy(d) == DOMAIN d # {}
send_sms_notification_to_client(o) ==
    IF o = "no_client_phone" THEN FALSE ELSE DictTruthy(send_sms(o))

\* notification_manager.py 206-230: both sends, one after the other, and the
\* dict of their results
notify_client_about_lead(eo, so) ==
    [email |-> send_email_notification(eo),
     sms   |-> send_sms_notification_to_client(so)]

\* lines 237-248: the notification of the operator; `if notification_result:`
\* (245) decides what is printed
Operator ==
    /\ pc = "operator"
    /\ report' = [report EXCEPT ![Last].notify = "attempt"]
    /\ net_calls' = IF dry_run THEN net_calls ELSE net_calls \cup {"notify"}
    /\ IF dry_run THEN UNCHANGED notification_result
       ELSE \E eo \in EmailOutcomes, so \in ClientSmsOutcomes :
              LET results == notify_client_about_lead(eo, so)
              IN  notification_result' =
                     [called |-> TRUE, email |-> results.email, sms |-> results.sms,
                      email_sent |-> (eo = "sent"), sms_sent |-> (so = "sent"),
                      notified |-> DictTruthy(results)]
    /\ pc' = "crm"
    /\ UNCHANGED store_vars
    /\ UNCHANGED << dry_run, thryv_auth_success, listings, all_leads, idx,
                    sms_to_seller_status, thryv_status, exit_code, faults, runs,
                    toggles >>
    /\ UNCHANGED clean_vars /\ UNCHANGED unit_vars

SentToThryv  == "Sent to Thryv"
ThryvFailed  == "Error: Failed to send to Thryv"

\* lines 250-293: `thryv_auth_success and is_crm_enabled()` reads the toggle
\* only after a successful authentication, `not thryv_auth_success and
\* is_crm_enabled()` only after a failed one.  The sync and the write of its
\* result (278, 287) leave thryv_status as it was
Crm ==
    /\ pc = "crm"
    /\ IF crm_enabled /\ thryv_auth_success
       THEN \E ok \in BOOLEAN :
            /\ report' = [report EXCEPT ![Last].crm = "attempt",
                                        ![Last].reads = @ \cup {TRUE},
                                        ![Last].created = ~dry_run /\ ok,
                                        ![Last].outcome =
                                            IF ok THEN SentToThryv ELSE ThryvFailed,
                                        ![Last].lead_id = IF ok THEN "T1" ELSE ""]
            /\ IF dry_run
               THEN UNCHANGED << sheet, sheet_service, crm_leads, faults, net_calls >>
               ELSE \E u \in MainUpdate(idx + 1,
                                       IF ok THEN SentToThryv ELSE ThryvFailed,
                                       IF ok THEN "T1" ELSE "") :
                    /\ sheet' = u.sheet /\ sheet_service' = u.svc
                    /\ faults' = (faults \/ u.fault)
                    /\ crm_leads' = IF ok THEN crm_leads \cup {report[Last].url}
                                    ELSE crm_leads
                    /\ net_calls' = net_calls \cup {"crm"}
                                    \cup (IF u.net THEN {"ledger"} ELSE {})
            /\ pc' = "status"
            /\ UNCHANGED thryv_status
       ELSE /\ report' = [report EXCEPT ![Last].reads = @ \cup {crm_enabled},
                                        ![Last].crm =
                                            IF crm_enabled THEN "auth_failed" ELSE @]
            /\ thryv_status' = IF crm_enabled THEN "Error (Auth Failed)"
                               ELSE thryv_status
            /\ pc' = IF crm_enabled THEN "status" ELSE "crm_else"
            /\ UNCHANGED << sheet, sheet_service, crm_leads, faults, net_calls >>
    /\ UNCHANGED << local_leads, crm_enabled, creds_present, dm >>
    /\ UNCHANGED << dry_run, thryv_auth_success, listings, all_leads, idx,
                    sms_to_seller_status, exit_code, runs, toggles >>
    /\ UNCHANGED clean_vars /\ UNCHANGED unit_vars /\ UNCHANGED notification_result

\* lines 294-300: the toggle is read once more
CrmElse ==
    /\ pc = "crm_else"
    /\ thryv_status' = IF ~crm_enabled THEN "Skipped (Disabled)"
                       ELSE "Skipped (Unknown Reason)"
    /\ report' = [report EXCEPT ![Last].reads = @ \cup {crm_enabled},
                                ![Last].crm =
                                    IF ~crm_enabled THEN "disabled" ELSE "unknown"]
    /\ pc' = "status"
    /\ UNCHANGED store_vars
    /\ UNCHANGED << dry_run, thryv_auth_success, listings, all_leads, idx,
                    sms_to_seller_status, exit_code, net_calls, faults, runs,
                    toggles >>
    /\ UNCHANGED clean_vars /\ UNCHANGED unit_vars /\ UNCHANGED notification_result

\* lines 302-306: update_thryv_status(index, thryv_status) in a live run.  A
\* thryv_status no branch of this run has assigned yet is an
\* UnboundLocalError, which line 322 turns into the return of 1
Status ==
    /\ pc = "status"
    /\ IF dry_run
       THEN /\ idx' = idx + 1 /\ pc' = "loop"
            /\ report' = [report EXCEPT ![Last].complete = TRUE]
            /\ UNCHANGED << sheet, sheet_service, faults, net_calls, exit_code >>
       ELSE IF thryv_status = "unbound"
       THEN /\ pc' = "done" /\ exit_code' = 1
            /\ UNCHANGED << idx, report, sheet, sheet_service, faults, net_calls >>
       ELSE \E u \in MainUpdate(idx + 1, thryv_status, "") :
            /\ sheet' = u.sheet /\ sheet_service' = u.svc
            /\ faults' = (faults \/ u.fault)
            /\ net_calls' = IF u.net THEN net_calls \cup {"ledger"} ELSE net_calls
            /\ idx' = idx + 1 /\ pc' = "loop"
            /\ report' = [report EXCEPT ![Last].complete = TRUE]
            /\ UNCHANGED exit_code
    /\ UNCHANGED << local_leads, crm_leads, crm_enabled, creds_present, dm >>
    /\ UNCHANGED << dry_run, thryv_auth_success, listings, all_leads,
                    sms_to_seller_status, thryv_status, runs, toggles >>
    /\ UNCHANGED clean_vars /\ UNCHANGED unit_vars /\ UNCHANGED notification_result

\* web_interface/app.py 371-377 -> update_setting('enable_thryv_crm', ..):
\* the operator flips the toggle while main runs
UpdateSetting ==
    /\ pc \notin {"idle", "done"}
    /\ toggles < MaxToggles
    /\ crm_enabled' = ~crm_enabled
    /\ toggles' = toggles + 1
    /\ UNCHANGED << sheet, local_leads, crm_leads, creds_present, sheet_service, dm >>
    /\ UNCHANGED << pc, dry_run, thryv_auth_success, listings, all_leads, idx,
                    sms_to_seller_status, thryv_status, exit_code, net_calls,
                    report, faults, runs >>
    /\ UNCHANGED clean_vars /\ UNCHANGED unit_vars /\ UNCHANGED notification_result

NextMain ==
    \/ Start \/ Scrape \/ Persist \/ Readback \/ Loop \/ Seller \/ Operator
    \/ Crm \/ CrmElse \/ Status \/ UpdateSetting

SpecMain == InitMain /\ [][NextMain]_vars

-----------------------------------------------------------------------------
(* Properties of the orchestrator *)

\* the ledger was reachable and answered every request of the run so far
LedgerHealthy == sheet_service /\ ~faults

\* the status and the id cells of the ledger row main holds for an entry
RowStatus(e) ==
    IF e.row - 1 <= Len(sheet) THEN sheet[e.row - 1].thryv_status ELSE ""
RowLeadId(e) ==
    IF e.row - 1 <= Len(sheet) THEN sheet[e.row - 1].thryv_lead_id ELSE ""

\* the seller SMS of the entry failed because the phone number of its
\* listing cannot be normalised
InvalidPhone(e) ==
    e.sms_failed /\ ~ReachesGateway(CurrentLead(e.url).phone_number)

\* C4: partial notification failure does not block the CRM sync.  At the end
\* of a live run on a healthy ledger, every lead whose seller SMS failed on
\* an invalid phone number and for which the toggle read enabled after a
\* successful authentication had its CRM sync attempted, and its ledger row
\* holds the result of that sync (with the external id when it was sent).
C4_SmsFailureKeepsCrmSync ==
    (pc = "done" /\ ~dry_run /\ LedgerHealthy /\ thryv_auth_success) =>
        \A k \in 1..Len(report) :
            (InvalidPhone(report[k]) /\ report[k].reads = {TRUE}) =>
                /\ report[k].crm = "attempt"
                /\ RowStatus(report[k]) = report[k].outcome
                /\ (report[k].outcome = SentToThryv) =>
                       RowLeadId(report[k]) = report[k].lead_id

\* line 207 over all_leads: how many leads the run has to process
ToProcess == Cardinality({ i \in 1..Len(all_leads) : Selected(all_leads[i]) })

\* C5: per-lead failures never abort the loop.  A live run that entered the
\* per-lead loop on a healthy ledger, the toggle untouched, ends with every
\* lead to process processed to the end and with exit code 0.
C5_LoopNeverAborts ==
    (pc = "done" /\ ~dry_run /\ idx > 0 /\ LedgerHealthy /\ toggles = 0) =>
        /\ Len(report) = ToProcess
        /\ \A k \in 1..Len(report) : report[k].complete
        /\ exit_code = 0

\* C6: CRM gating.  For every lead a live run on a healthy ledger processed
\* to the end, the status of its row is "Skipped (Disabled)" when the toggle
\* read disabled, "Error (Auth Failed)" when it read enabled and the
\* authentication had failed, and the outcome of the sync otherwise; a lead
\* was created in the CRM only in the last case.
C6_CrmGating ==
    (~dry_run /\ LedgerHealthy) =>
        \A k \in 1..Len(report) :
            report[k].complete =>
                /\ (report[k].reads = {FALSE}) =>
                       RowStatus(report[k]) = "Skipped (Disabled)"
                /\ (report[k].reads = {TRUE} /\ ~thryv_auth_success) =>
                       RowStatus(report[k]) = "Error (Auth Failed)"
                /\ (report[k].reads = {TRUE} /\ thryv_auth_success) =>
                       RowStatus(report[k]) = report[k].outcome
                /\ report[k].created =>
                       (report[k].reads = {TRUE} /\ thryv_auth_success)

\* lines 203-300 with dry_run = True over the all_leads of lines 174-182:
\* every listing is selected, the seller is written to when the listing of
\* its URL has a phone number, the operator is notified, and the CRM branch
\* follows the authentication and the toggle
DryDecisions(found, auth, enabled) ==
    [i \in 1..Len(found) |->
        [url    |-> found[i].listing_url,
         sms    |-> IF Truthy(CurrentLead(found[i].listing_url).phone_number)
                    THEN "attempt" ELSE "skip",
         notify |-> "attempt",
         crm    |-> CASE enabled /\ auth  -> "attempt"
                      [] enabled /\ ~auth -> "auth_failed"
                      [] OTHER            -> "disabled"]]

\* the leads a run selected and the decisions it took for each
Decisions ==
    [k \in 1..Len(report) |->
        [url |-> report[k].url, sms |-> report[k].sms,
         notify |-> report[k].notify, crm |-> report[k].crm]]

\* a finished dry run took the decisions of DryDecisions and returned 0
DryRunDecisions ==
    (pc = "done" /\ dry_run /\ toggles = 0 /\ listings # << >>) =>
        /\ exit_code = 0
        /\ Decisions = DryDecisions(listings, thryv_auth_success, crm_enabled)

\* C7: dry-run equivalence.  A finished live run on a healthy, initially
\* empty ledger, the toggle untouched, selected the leads and took the
\* decisions a dry run takes for the same listings, authentication result
\* and toggle, and ended with the dry run's exit code 0.
C7_DryRunEquivalence ==
    (pc = "done" /\ ~dry_run /\ LedgerHealthy /\ toggles = 0 /\ listings # << >>) =>
        /\ exit_code = 0
        /\ Decisions = DryDecisions(listings, thryv_auth_success, crm_enabled)

\* C8: dry-run frame.  From the start of a dry run to its return no
\* collaborator was contacted over the network, and the remote ledger, the
\* local mirror and the CRM are as they were.
C8_DryRunFrame ==
    dry_run =>
        /\ net_calls = {}
        /\ sheet = << >> /\ local_leads = << >> /\ crm_leads = {}

-----------------------------------------------------------------------------
(* Properties of the retries of the ledger operations *)

\* positions, in the last call, of the requests of one kind
RequestsOf(kind) == { i \in 1..Len(dm.calls) : dm.calls[i].req = kind }

\* positions of the credential refreshes that answer a 401/403 of a request
\* of the kind
AuthRefreshesOf(kind) ==
    { i \in 2..Len(dm.calls) :
        /\ dm.calls[i].req = "refresh"
        /\ dm.calls[i - 1].req = kind
        /\ dm.calls[i - 1].st \in AuthStatuses }

\* C11: auth errors trigger exactly one refresh-and-retry.  In every call of
\* a ledger operation each remote request is made at most twice (the request
\* and one retry) and its 401/403 answers are followed by at most one
\* credential refresh.
C11_OneRefreshAndRetry ==
    (dm.op \in {"append", "get_all", "update"}) =>
        \A kind \in {"get", "append", "update_status", "update_id"} :
            /\ Cardinality(RequestsOf(kind)) <= 2
            /\ Cardinality(AuthRefreshesOf(kind)) <= 1

-----------------------------------------------------------------------------
(* Properties of get_all_leads *)

\* the answer that ended the remote read of the last call, "none" without one
LastGetAnswer ==
    IF RequestsOf("get") = {} THEN "none"
    ELSE dm.calls[CHOOSE i \in RequestsOf("get") :
                    \A j \in RequestsOf("get") : j <= i].st

\* the list returned is the local mirror, lead by lead
ReturnsMirror ==
    /\ Len(dm.leads) = Len(local_leads)
    /\ \A i \in 1..Len(local_leads) :
         dm.leads[i].listing_url = local_leads[i].listing_url

-----------------------------------------------------------------------------
(* Properties of the ledger rows *)

\* the cells of a row that _lead_to_row fills from the lead (lines 370-398)
SameLeadCells(r1, r2) ==
    /\ r1.listing_url = r2.listing_url /\ r1.year = r2.year
    /\ r1.price = r2.price /\ r1.phone_number = r2.phone_number

\* the row of the sheet at data position k, blank when the sheet ends before it
RowAt(rows, k) == IF k <= Len(rows) THEN rows[k] ELSE BlankRow

\* what one update_thryv_status(row_index, status, thryv_lead_id) call may
\* change: nothing in the mirror, no row but its own, in its own row the
\* status cell and, only with a lead id, the lead id cell; a call that
\* returns True wrote both
UpdateFrame ==
    LET a   == dm'.args
        k   == a.row_index - 1
        old == RowAt(sheet, k)
        new == RowAt(sheet', k)
    IN  /\ local_leads' = local_leads
        /\ Len(sheet') >= Len(sheet)
        /\ \A i \in 1..Len(sheet') : i # k => sheet'[i] = RowAt(sheet, i)
        /\ SameLeadCells(new, old)
        /\ new.thryv_status \in {old.thryv_status, a.status}
        /\ new.thryv_lead_id \in {old.thryv_lead_id, a.thryv_lead_id}
        /\ (a.thryv_lead_id = "") => new.thryv_lead_id = old.thryv_lead_id
        /\ (dm'.ret = "True") =>
              /\ new.thryv_status = a.status
              /\ (a.thryv_lead_id # "") => new.thryv_lead_id = a.thryv_lead_id

\* C13: update_status frame.  Every update_thryv_status call, whether it
\* succeeds or fails, leaves the local mirror and every ledger cell as they
\* were except the status cell of its row and, if and only if a lead id is
\* given, the lead id cell of that row; a successful call has written the
\* status and the given lead id.
C13_UpdateStatusFrame ==
    [][ (dm.op = "none" /\ dm'.op = "update") => UpdateFrame ]_vars

\* a successful update with a lead id of a row that an append wrote
C13_Witness ==
    /\ dm.op = "update" /\ dm.ret = "True" /\ dm.args.thryv_lead_id = "T1"
    /\ Len(sheet) >= dm.args.row_index - 1
    /\ LET row == sheet[dm.args.row_index - 1]
       IN  /\ row.listing_url = "u1"
           /\ row.thryv_status = dm.args.status
           /\ row.thryv_lead_id = "T1"
    /\ local_leads # << >>

\* C14: ledger rows are immutable outside the status columns.  No append,
\* get_all or update_thryv_status call removes a row or changes the cells
\* of an existing row that came from the lead (URL, year, price, phone and
\* the other lead columns); only the two status cells are rewritten.
C14_RowsImmutable ==
    [][ /\ Len(sheet') >= Len(sheet)
        /\ \A i \in 1..Len(sheet) : SameLeadCells(sheet'[i], sheet[i]) ]_vars

\* an append that followed a status update of the first row: the row keeps
\* its lead cells and its status, the new row stands behind it
C14_Witness ==
    /\ dm.op = "append" /\ dm.ret = "True" /\ Len(sheet) = 2
    /\ sheet[1].listing_url = "u1" /\ sheet[1].year = CellOf(LeadA.year)
    /\ sheet[1].thryv_status = "Sent to Thryv" /\ sheet[1].thryv_lead_id = "T1"
    /\ sheet[2].listing_url = "u2" /\ sheet[2].thryv_status # "Sent to Thryv"

-----------------------------------------------------------------------------
(* Properties of filter_duplicates *)

\* the list append_leads_to_sheet hands to filter_duplicates (line 304)
FilterInput == _clean_leads_data(dm.batch, ConfigMinYear)

\* C15: duplicate filter, assume-all-new.  When the filter made no read of
\* the ledger because it is unreachable, or its read failed and was not made
\* good by a refresh and a retry, the filter returns its whole input
\* unchanged; no exception leaves the call before the remote append.
C15_AssumeAllNew ==
    (dm.op = "append" /\ dm.batch # << >>) =>
        /\ (LastGetAnswer # "200") => dm.unique = FilterInput
        /\ (dm.ret = "raise") => RequestsOf("append") # {}

\* a read answered 401/403 whose refresh failed, on a ledger that already
\* held the listing of the input: the candidate comes back and is appended
\* a second time
C15_Witness ==
    /\ dm.op = "append" /\ dm.batch # << >> /\ dm.unique = dm.batch
    /\ LastGetAnswer \in AuthStatuses
    /\ \E i \in AuthRefreshesOf("get") : dm.calls[i].st # "ok"
    /\ \E i \in 1..Len(dm.batch) : RowsWithUrl(dm.batch[i].listing_url) >= 2

\* the positions of the candidates the filter has to keep: no listing URL, or
\* one that no ledger row holds
KeptPositions(leads_data, existing_urls) ==
    { i \in 1..Len(leads_data) :
        \/ UrlOrEmpty(leads_data[i]) = ""
        \/ UrlOrEmpty(leads_data[i]) \notin existing_urls }

\* out lists the candidates at the positions, in their order
ListsPositions(out, leads_data, positions) ==
    /\ Len(out) = Cardinality(positions)
    /\ \A i \in positions :
         out[Cardinality({ k \in positions : k <= i })] = leads_data[i]

\* C16: duplicate filter output.  When the filter's read of the ledger is
\* answered, its result is the subsequence of its input, in the input's
\* order, of exactly the candidates whose listing_url is empty or missing or
\* is not the listing_url of a ledger row; candidates without a URL are
\* always kept.
C16_FilterOutput ==
    [][ LET call == dm'
            gets == { i \in 1..Len(call.calls) : call.calls[i].req = "get" }
            last == CHOOSE i \in gets : \A j \in gets : j <= i
            leads_data == _clean_leads_data(call.batch, ConfigMinYear)
        IN  (dm.op = "none" /\ call.op = "append" /\ gets # {}
               /\ call.calls[last].st = "200") =>
                ListsPositions(call.unique, leads_data,
                               KeptPositions(leads_data, ExistingUrls(sheet))) ]_vars

\* a candidate without listing_url kept, the one behind it dropped as a
\* duplicate of a ledger row
C16_Witness ==
    /\ dm.op = "append" /\ LastGetAnswer = "200"
    /\ Len(dm.batch) = 2 /\ Len(dm.unique) = 1
    /\ dm.batch[1].listing_url = None /\ dm.unique[1] = FilterInput[1]
    /\ RowsWithUrl(dm.batch[2].listing_url) = 1

-----------------------------------------------------------------------------
(* Properties of the availability of the Sheets service *)

\* the requests to the remote ledger
RemoteRequests == {"get", "append", "header", "update_status", "update_id"}

\* C17: store availability.  A ledger operation that starts while the
\* Sheets service is not available makes no request to the remote ledger and
\* leaves the service unavailable; the service becomes available only by an
\* explicit refresh.
C17_Availability ==
    [][ (dm.op = "none" /\ ~sheet_service
           /\ dm'.op \in {"append", "get_all", "update"}) =>
            /\ ~sheet_service'
            /\ \A i \in 1..Len(dm'.calls) : dm'.calls[i].req \notin RemoteRequests
      ]_vars

-----------------------------------------------------------------------------
(* Properties of the notifications *)

\* C19: notify_seller outcome.  In a live run the seller-SMS status that
\* main hands to the operator notification is "No Phone Number" exactly when
\* the lead gives no phone number, "Sent Successfully" exactly when the
\* message was attempted and accepted by the gateway, and "Failed to Send"
\* exactly when it was attempted and not accepted.
C19_SellerOutcome ==
    (pc = "operator" /\ ~dry_run) =>
        LET e == report[Last]
        IN  /\ (sms_to_seller_status = "No Phone Number") <=> (e.sms = "skip")
            /\ (sms_to_seller_status = "Sent Successfully")
                   <=> (e.sms = "attempt" /\ ~e.sms_failed)
            /\ (sms_to_seller_status = "Failed to Send")
                   <=> (e.sms = "attempt" /\ e.sms_failed)

\* C18: notify_operator.  After each notify_client_about_lead call of a live
\* run both channels were tried, the boolean reported for a channel is true
\* only if that channel's send succeeded, and main takes the notification as
\* sent if and only if at least one channel succeeded.
C18_OperatorNotification ==
    notification_result.called =>
        /\ notification_result.email => notification_result.email_sent
        /\ notification_result.sms => notification_result.sms_sent
        /\ notification_result.notified
             <=> (notification_result.email_sent \/ notification_result.sms_sent)

-----------------------------------------------------------------------------
(* Properties of _execute_with_retry *)

TransientAnswers == RetryableStatuses \cup {"timeout"}

-----------------------------------------------------------------------------
(* ThryvIntegrator.create_thryv_lead taken alone *)

\* what requests.post may give: a response with a status code and a body, or
\* an exception (connection error, timeout)
ThryvStatuses == {"200", "201", "204", "400", "401", "500"}
ThryvBodies == {"id", "no_id", "not_dict", "not_json"}
ThryvAnswers ==
    [status : ThryvStatuses, body : ThryvBodies]
    \cup { [status |-> "exception", body |-> "none"] }

ThryvMissing == "Thryv API key or account ID missing"
ThryvError == "Error creating lead in Thryv"
ThryvException == "Exception during Thryv lead creation"

\* a faulty variant: every 2xx status counts as created
CreateAccepts2xx(api_key, account_id, answer) ==
    IF answer.status \in {"200", "201", "204"}
    THEN [posts |-> 1, success |-> TRUE, value |-> "T1", raised |-> FALSE]
    ELSE [posts |-> 1, success |-> FALSE, value |-> ThryvError, raised |-> FALSE]

\* lines 143-183: the POSTs made, the pair returned, whether an exception
\* left the call.  response.json() raises on a body that is no JSON, .get on
\* one that is no object; both land in the except branch (180-183)
create_thryv_lead(api_key, account_id, answer) ==
    IF ~api_key \/ ~account_id
    THEN [posts |-> 0, success |-> FALSE, value |-> ThryvMissing, raised |-> FALSE]
    ELSE IF answer.status = "exception"
    THEN [posts |-> 1, success |-> FALSE, value |-> ThryvException, raised |-> FALSE]
    ELSE IF answer.status \in {"200", "201"}
    THEN CASE answer.body = "id" ->
                [posts |-> 1, success |-> TRUE, value |-> "T1", raised |-> FALSE]
           [] answer.body = "no_id" ->
                [posts |-> 1, success |-> TRUE, value |-> "Unknown", raised |-> FALSE]
           [] OTHER ->
                [posts |-> 1, success |-> FALSE, value |-> ThryvException,
                 raised |-> FALSE]
    ELSE [posts |-> 1, success |-> FALSE, value |-> ThryvError, raised |-> FALSE]

InitThryv ==
    /\ InitStores /\ InitMainIdle /\ InitCleanIdle
    /\ sheet_service = FALSE /\ crm_enabled = TRUE
    /\ thryv \in [api_key : BOOLEAN, account_id : BOOLEAN, call : {NoThryvCall}]
    /\ phone_in = PyNone /\ phone_out = [done |-> FALSE, ok |-> FALSE, s |-> << >>]
    /\ ledger_before = [sheet |-> 0, local |-> 0]

ThryvCreate ==
    /\ thryv.call.op = "none"
    /\ \E lead \in {LeadA, LeadB, LeadS, LeadOld}, answer \in ThryvAnswers :
         LET r == create_thryv_lead(thryv.api_key, thryv.account_id, answer)
         IN  thryv' = [thryv EXCEPT !.call =
                         [op |-> "create", lead |-> ListingUrlOf(lead),
                          posts |-> r.posts,
                          answer |-> IF r.posts = 0 THEN NoThryvCall.answer
                                     ELSE answer,
                          success |-> r.success, value |-> r.value,
                          raised |-> r.raised]]
    /\ UNCHANGED << phone_in, phone_out, ledger_before >>
    /\ UNCHANGED store_vars /\ UNCHANGED main_vars /\ UNCHANGED clean_vars

ThryvReturn ==
    /\ thryv.call.op # "none"
    /\ thryv' = [thryv EXCEPT !.call = NoThryvCall]
    /\ UNCHANGED << phone_in, phone_out, ledger_before >>
    /\ UNCHANGED store_vars /\ UNCHANGED main_vars /\ UNCHANGED clean_vars

NextThryv == ThryvCreate \/ ThryvReturn

SpecThryv == InitThryv /\ [][NextThryv]_vars

\* C21: CRM create.  A create_thryv_lead call makes at most one POST, and
\* none without the credentials; it returns success with the id parsed from
\* the body only for a 200 or 201 response; for any other status, an
\* exception of the request, a body that cannot be parsed, or missing
\* credentials it returns failure with an error string; no exception leaves
\* the call.
C21_CrmCreate ==
    (thryv.call.op = "create") =>
        LET c == thryv.call
        IN  /\ c.posts <= 1 /\ ~c.raised
            /\ (c.posts = 0) <=> (~thryv.api_key \/ ~thryv.account_id)
            /\ c.success => /\ c.posts = 1
                            /\ c.answer.status \in {"200", "201"}
                            /\ c.answer.body \in {"id", "no_id"}
                            /\ (c.answer.body = "id") => c.value = "T1"
            /\ ~c.success => c.value \in {ThryvMissing, ThryvError, ThryvException}
            /\ ( \/ c.posts = 0
                 \/ c.answer.status \notin {"200", "201"}
                 \/ c.answer.body \in {"not_json", "not_dict"} ) => ~c.success

\* a 201 answer with an id: success and the id
C21_Witness ==
    /\ thryv.call.op = "create" /\ thryv.call.posts = 1
    /\ thryv.call.answer = [status |-> "201", body |-> "id"]
    /\ thryv.call.success /\ thryv.call.value = "T1"

-----------------------------------------------------------------------------
(* MessagingManager._normalize_phone_number taken alone *)

\* None, the empty string, and numbers of 1 to 12 digits, with and without a
\* leading 1, written plain ("8085551234"), with dashes ("808-555-1234") and
\* with a parenthesised area code ("(808) 555-1234"); the numbers of
\* tests/test_messaging_manager.py 41-53
PhoneInputs ==
    LET base == << "8", "0", "8", "5", "5", "5", "1", "2", "3", "4", "5", "6" >>
        digits(n, one) == IF one /\ n >= 1 THEN << "1" >> \o SubSeq(base, 1, n - 1)
                          ELSE SubSeq(base, 1, n)
        RECURSIVE dashed(_)
        dashed(d) == IF d = << >> THEN << >>
                     ELSE IF Len(d) \in {5, 8, 11}
                     THEN << Head(d), "-" >> \o dashed(Tail(d))
                     ELSE << Head(d) >> \o dashed(Tail(d))
        parens(d) == IF Len(d) < 4 THEN d
                     ELSE << "(" >> \o SubSeq(d, 1, 3) \o << ")", " " >>
                          \o dashed(SubSeq(d, 4, Len(d)))
    IN  { PyNone, PyStr(<< "1", "2", "3" >>),
          PyStr(<< "5", "5", "5", "-", "1", "2", "3", "4" >>) }
        \cup { PyStr(digits(n, one)) : n \in 0..12, one \in BOOLEAN }
        \cup { PyStr(dashed(digits(n, one))) : n \in 0..12, one \in BOOLEAN }
        \cup { PyStr(parens(digits(n, one))) : n \in 0..12, one \in BOOLEAN }

InitPhone ==
    /\ InitStores /\ InitMainIdle /\ InitCleanIdle
    /\ sheet_service = FALSE /\ crm_enabled = TRUE
    /\ thryv = [api_key |-> TRUE, account_id |-> TRUE, call |-> NoThryvCall]
    /\ phone_in \in PhoneInputs
    /\ phone_out = [done |-> FALSE, ok |-> FALSE, s |-> << >>]
    /\ ledger_before = [sheet |-> 0, local |-> 0]

\* lines 77-108; `if not phone` (87) answers None for None and for ''
PhoneApply ==
    /\ ~phone_out.done
    /\ LET r == IF ~Truthy(phone_in) THEN [ok |-> FALSE, s |-> << >>]
                ELSE _normalize_phone_number(phone_in.s)
       IN  phone_out' = [done |-> TRUE, ok |-> r.ok, s |-> r.s]
    /\ UNCHANGED << thryv, phone_in, ledger_before >>
    /\ UNCHANGED store_vars /\ UNCHANGED main_vars /\ UNCHANGED clean_vars

SpecPhone == InitPhone /\ [][PhoneApply]_vars

\* C22: phone normalization.  A number of 10 digits, whatever separates
\* them, gives +1 and the digits; one of 11 digits that starts with 1 gives
\* + and the digits; one of 7 digits gives +1808 and the digits; fewer than
\* 7 digits, the empty string and None give None.  So "808-555-1234",
\* "(808) 555-1234" and "555-1234" give "+18085551234", and "123" None.
C22_PhoneNormalization ==
    phone_out.done =>
        LET str == IF phone_in.t = "str" THEN phone_in.s ELSE << >>
            d == SelectSeq(str, LAMBDA c : c \in Digits)
            Gives(x) == phone_out.ok /\ phone_out.s = x
            hawaii == << "+", "1", "8", "0", "8", "5", "5", "5", "1", "2", "3", "4" >>
        IN  /\ (Len(d) = 10) => Gives(<< "+", "1" >> \o d)
            /\ (Len(d) = 11 /\ d[1] = "1") => Gives(<< "+" >> \o d)
            /\ (Len(d) = 7) => Gives(<< "+", "1", "8", "0", "8" >> \o d)
            /\ (Len(d) < 7) => ~phone_out.ok
            /\ (str \in { << "8", "0", "8", "-", "5", "5", "5", "-", "1", "2", "3", "4" >>,
                          << "(", "8", "0", "8", ")", " ", "5", "5", "5", "-",
                             "1", "2", "3", "4" >>,
                          << "5", "5", "5", "-", "1", "2", "3", "4" >> })
                  => Gives(hawaii)
            /\ (str = << "1", "2", "3" >>) => ~phone_out.ok

\* the local number "555-1234" normalised with the fallback area code
C22_Witness ==
    /\ phone_out.done /\ phone_out.ok
    /\ phone_in = PyStr(<< "5", "5", "5", "-", "1", "2", "3", "4" >>)
    /\ phone_out.s = << "+", "1", "8", "0", "8", "5", "5", "5", "1", "2", "3", "4" >>

-----------------------------------------------------------------------------
(* Properties of the price normalisation *)

\* C23: price normalization.  A price string made of digits, the currency
\* symbol and commas becomes the integer its digits denote ("$20,000"
\* becomes 20000); an unparseable price such as "N/A" stays as it is, and a
\* record with such a price and a year that passes the filter is kept.
C23_PriceNormalization ==
    clean_out.done =>
        LET price == CleanRecord.price
            year  == CleanRecord.year
            money == /\ price.t = "str"
                     /\ \A i \in 1..Len(price.s) : price.s[i] \in Digits \cup {"$", ","}
                     /\ \E i \in 1..Len(price.s) : price.s[i] \in Digits
            na    == price = PyStr(<< "N", "/", "A" >>)
        IN  /\ (money /\ CleanKept) =>
                 clean_out.leads[1].price
                     = PyInt(DigitsToInt(SelectSeq(price.s, LAMBDA c : c \in Digits)))
            /\ (na /\ CleanKept) => clean_out.leads[1].price = price
            /\ (na /\ year.t = "int" /\ year.n >= clean_min_year) => CleanKept

\* "$20,000" cleaned to 20000 in a record that is kept
C23_Witness ==
    /\ clean_out.done /\ CleanKept
    /\ CleanRecord.price = PyStr(<< "$", "2", "0", ",", "0", "0", "0" >>)
    /\ clean_out.leads[1].price = PyInt(20000)


-----------------------------------------------------------------------------
(* One scrape cycle end to end: a listing to keep and one too old *)

\* the two listings of the scenario, as a scrape returns them
Camry == [listing_url |-> "u5", url |-> None,
          year |-> PyInt(DefaultMinVehicleYear + 2),
          price |-> PyStr(<< "$", "2", "2", ",", "5", "0", "0" >>),
          phone_number |-> LeadA.phone_number]
Civic == [listing_url |-> "u6", url |-> None,
          year |-> PyInt(DefaultMinVehicleYear - 3), price |-> PyInt(4000),
          phone_number |-> PyNone]

\* a live run on an empty ledger with the CRM toggle off
InitScenario == InitMain /\ ~dry_run /\ ~crm_enabled

ScenarioScrape == ScrapeFrom({ << Camry, Civic >> })

\* main() with the scraper returning the two listings and nobody at the
\* settings page
NextScenario ==
    \/ Start \/ ScenarioScrape \/ Persist \/ Readback \/ Loop \/ Seller
    \/ Operator \/ Crm \/ CrmElse \/ Status

SpecScenario == InitScenario /\ [][NextScenario]_vars

\* C24: a live run with CRM sync disabled that scraped a 2020 Camry
\* ("$22,500", 808-555-1234) and a 2015 Civic on an empty, reachable ledger
\* that answered every request ends with exactly one ledger row, the
\* Camry's, its price cleaned to 22500 and its status "Skipped (Disabled)",
\* and with one seller SMS attempted, to +18085551234.
C24_EndToEnd ==
    (pc = "done" /\ listings = << Camry, Civic >> /\ LedgerHealthy) =>
        /\ Len(sheet) = 1
        /\ sheet[1].listing_url = Camry.listing_url
        /\ sheet[1].price = CellOf(PyInt(22500))
        /\ sheet[1].thryv_status = "Skipped (Disabled)"
        /\ Len(report) = 1
        /\ report[1].url = Camry.listing_url
        /\ report[1].sms = "attempt"
        /\ "sms" \in net_calls
        /\ _normalize_phone_number(Camry.phone_number.s) =
               [ok |-> TRUE,
                s |-> << "+", "1", "8", "0", "8", "5", "5", "5",
                         "1", "2", "3", "4" >>]
        /\ exit_code = 0

C24_Witness ==
    /\ pc = "done" /\ listings = << Camry, Civic >> /\ LedgerHealthy
    /\ Len(sheet) = 1 /\ sheet[1].thryv_status = "Skipped (Disabled)"
    /\ Len(report) = 1 /\ ~report[1].sms_failed


-----------------------------------------------------------------------------
(* Runs of main() one after the other on the same ledger *)

MaxRuns == 2   \* live runs of main() in a row

\* a live run on an empty ledger; the runs after it find what it left
InitRuns == InitMain /\ ~dry_run

\* every cycle finds the same listing again
RunsScrape == ScrapeFrom({ << LeadA >> })

\* main() returned (lines 309-324) and the agent is started again: a new
\* process, with its locals and its managers built anew; the ledger, its
\* mirror, the CRM and ui_settings.json are what the last run left
Restart ==
    /\ pc = "done" /\ runs + 1 < MaxRuns
    /\ runs' = runs + 1
    /\ pc' = "idle" /\ sheet_service' = FALSE /\ thryv_auth_success' = FALSE
    /\ listings' = << >> /\ all_leads' = << >> /\ idx' = 0
    /\ sms_to_seller_status' = "Not Attempted" /\ thryv_status' = "unbound"
    /\ exit_code' = -1 /\ net_calls' = {} /\ faults' = FALSE
    /\ notification_result' = NotNotified
    /\ ledger_before' = [sheet |-> Len(sheet), local |-> Len(local_leads)]
    \* of the run that ended the report keeps which rows it processed and
    \* which listings it created in the CRM
    /\ report' = [i \in 1..Len(report) |->
                     [NewEntry(report[i].url, report[i].row) EXCEPT
                         !.created = report[i].created,
                         !.complete = report[i].complete,
                         !.run = report[i].run]]
    /\ UNCHANGED << sheet, local_leads, crm_leads, crm_enabled, creds_present,
                    dm, dry_run, toggles >>
    /\ UNCHANGED clean_vars /\ UNCHANGED << thryv, phone_in, phone_out >>

NextRuns ==
    \/ Start \/ RunsScrape \/ Persist \/ Readback \/ Loop \/ Seller
    \/ Operator \/ Crm \/ CrmElse \/ Status \/ Restart

SpecRuns == InitRuns /\ [][NextRuns]_vars


\* the entries of the report made by the run under way
ThisRun == { i \in 1..Len(report) : report[i].run = runs }

\* C25: the per-lead loop processes exactly the leads this run's append
\* persisted.  A row main processes was added by this run, to the ledger
\* or to its mirror, and is no row that was there before the run; and a run
\* that came to its end on a healthy ledger has processed every row it
\* appended, once.
C25_OnlyNewlyPersisted ==
    /\ \A i \in ThisRun :
           \/ report[i].row - 1 > ledger_before.sheet
           \/ report[i].row - 1 > ledger_before.local
    /\ (pc = "done" /\ exit_code = 0 /\ LedgerHealthy) =>
           \A r \in (ledger_before.sheet + 1)..Len(sheet) :
               Cardinality({ i \in ThisRun : report[i].row = r + 1 }) = 1


-----------------------------------------------------------------------------
(* The row main addresses its status writes to *)

\* C26: row addressing.  When a live run with the ledger's credentials in
\* place has come to the CRM step of a lead, from where every path goes on
\* to update_thryv_status(index, ...), the index main holds (the position in
\* the list get_all_leads returned, plus one for the header) is the row of
\* the remote ledger that holds the lead's listing_url, the read served
\* from the local mirror included.
C26_RowAddressing ==
    (~dry_run /\ pc = "crm" /\ creds_present) =>
        /\ report[Last].row = idx + 1
        /\ idx <= Len(sheet)
        /\ sheet[idx].listing_url = report[Last].url


-----------------------------------------------------------------------------
(* The order of the steps taken for a lead *)

\* C27: per-lead ordering.  Of every lead of a run, the operator is
\* notified only after the seller step, the CRM is checked only after the
\* operator step, the status is written and the lead finished only after the
\* CRM step; and every lead before the one in hand is finished.
C27_PerLeadOrdering ==
    \A i \in 1..Len(report) :
        LET e == report[i]
        IN  /\ (e.notify # "") => (e.sms # "")
            /\ (e.crm # "" \/ e.reads # {}) => (e.notify # "")
            /\ e.complete => (e.crm # "")
            /\ (~dry_run /\ RowStatus(e) # "") => (e.crm # "")
            /\ (i < Len(report)) => e.complete

C27_Witness ==
    /\ ~dry_run /\ Len(report) = 2 /\ pc = "done"
    /\ report[1].complete /\ report[2].complete
    /\ RowStatus(report[2]) # ""


-----------------------------------------------------------------------------
(* The status writes made for a lead *)

\* C28: one status write per processed lead.  In a live run that has ended,
\* the row of every lead the loop took up was written once, with the lead's
\* final status: the outcome of the CRM sync, with the id Thryv gave when the
\* sync succeeded, or else the status of the branch taken.  On a healthy
\* ledger the row then holds exactly that, no later write having replaced it.
C28_OneStatusWrite ==
    (pc = "done" /\ ~dry_run /\ LedgerHealthy) =>
        \A i \in 1..Len(report) :
            LET e == report[i]
            IN  /\ RowStatus(e) # ""
                /\ (e.crm = "attempt") =>
                       /\ RowStatus(e) = e.outcome
                       /\ RowLeadId(e) = e.lead_id
                /\ (e.crm = "disabled") => RowStatus(e) = "Skipped (Disabled)"
                /\ (e.crm = "auth_failed") => RowStatus(e) = "Error (Auth Failed)"


-----------------------------------------------------------------------------
(* CRM leads over several runs *)

\* C29: at most one CRM lead per listing.  Over the runs so far no two
\* successful create_thryv_lead calls were made for one listing_url.
C29_CreateOncePerListing ==
    \A i, j \in 1..Len(report) :
        (report[i].created /\ report[j].created /\ report[i].url = report[j].url)
            => (i = j)


-----------------------------------------------------------------------------
(* The toggle changed while a lead is handled *)

\* C30: "Skipped (Unknown Reason)" is never written.  No row of the ledger
\* holds that status, the CRM toggle changed through the web interface
\* between the reads of one lead included.
C30_NoUnknownReason ==
    \A r \in 1..Len(sheet) : sheet[r].thryv_status # "Skipped (Unknown Reason)"

====
